---- MODULE Spec2Model ----
(***************************************************************************)
(* Model of the Discussify backend request handlers: community creation    *)
(* and membership (communityController.js), posts, votes and notification  *)
(* fan-out (postController.js), registration, e-mail verification and      *)
(* password reset (AuthController.js).  Every handler is an async function *)
(* against a shared document store: one action of the model is the code    *)
(* a handler runs between two awaits, so requests interleave at awaits.    *)
(***************************************************************************)
EXTENDS Integers, Sequences, FiniteSets, TLC

VARIABLES
    communities,        \* Community collection: ObjectId -> document or NoDoc
    joinedCommunities,  \* User.joinedCommunities: user id -> set of community ids
    posts,              \* Post collection: post id -> document or NoDoc
    notifications,      \* Notification collection: sequence of documents
    accounts,           \* User collection (credentials and OTP state): email -> document or NoDoc
    files,              \* staged upload files on disk: the numbers of the requests that staged them
    now,                \* wall clock, in minutes
    fanout,             \* notifyCommunityMembers calls running detached from their request
    reqs                \* the requests in arrival order: number -> handler frame

vars == <<communities, joinedCommunities, posts, notifications, accounts, files, fanout, now, reqs>>

(***************************************************************************)
(* Bounds of the model.                                                    *)
(***************************************************************************)
MaxRequests == 2

Reqs == 1..MaxRequests

(***************************************************************************)
(* Strings are sequences of characters, so that formats are computed.      *)
(***************************************************************************)
HexDigits == {"0", "1", "2", "3", "4", "5", "6", "7", "8", "9", "a", "b", "c", "d", "e", "f"}

ObjectIdHexLen == 24

Rep(ch, n) == [i \in 1..n |-> ch]

\* mongoose.Types.ObjectId.isValid on a string: 24 hexadecimal characters
isObjectId(s) == Len(s) = ObjectIdHexLen /\ \A i \in 1..Len(s) : s[i] \in HexDigits

\* the ObjectIds the store hands out, in allocation order
OidX == Rep("a", ObjectIdHexLen - 1) \o <<"1">>
OidY == Rep("a", ObjectIdHexLen - 1) \o <<"2">>
CommunityIds == <<OidX, OidY>>
CommunityIdSet == {CommunityIds[i] : i \in 1..Len(CommunityIds)}

Users == {"A", "B", "C"}

NoDoc == [missing |-> TRUE]

\* the name of the community the store holds at start-up, and its slug
SeedName == <<"G", "o">>
SeedSlug == <<"g", "o">>

\* community names a client may send; one of them is spelled like an ObjectId
Names == {SeedName, SeedSlug, OidX}

\* strings a client may send as :idOrSlug
Keys == {OidX, OidY, SeedSlug, SeedName}

Visibilities == {"public", "private", "hidden"}

\* slug derivation of the Community schema: lower-case, blanks to hyphens
SlugChar(ch) == CASE ch = "G" -> "g" [] ch = " " -> "-" [] OTHER -> ch
slugify(name) == [i \in 1..Len(name) |-> SlugChar(name[i])]

(***************************************************************************)
(* Community documents and the schema's instance methods.                  *)
(***************************************************************************)
Existing == {id \in CommunityIdSet : communities[id] # NoDoc}

MemberIds(doc) == {doc.members[i].user : i \in 1..Len(doc.members)}

isMember(doc, userId) == userId \in MemberIds(doc)

isBanned(doc, userId) == userId \in doc.bannedUsers

\* Community.findOne({ _id: key })
findById(key) ==
    IF \E id \in Existing : id = key THEN communities[key] ELSE NoDoc

\* Community.findOne({ slug: key })
findBySlug(key) ==
    IF \E id \in Existing : communities[id].slug = key
    THEN communities[CHOOSE id \in Existing : communities[id].slug = key]
    ELSE NoDoc

findCommunitySlugFirst(idOrSlug) ==
    LET bySlug == findBySlug(idOrSlug)
    IN  IF bySlug # NoDoc THEN bySlug
        ELSE IF isObjectId(idOrSlug) THEN findById(idOrSlug) ELSE NoDoc

findCommunity(idOrSlug) ==
    LET byId == IF isObjectId(idOrSlug) THEN findById(idOrSlug) ELSE NoDoc
    IN  IF byId # NoDoc THEN byId ELSE findBySlug(idOrSlug)

(***************************************************************************)
(* Request frames.                                                         *)
(***************************************************************************)
NoUser == "anonymous"
EmptyString == <<>>
SomeText == <<"t">>

Idle == [op |-> "none", pc |-> "idle", user |-> NoUser, arg |-> NoDoc, doc |-> NoDoc, status |-> 0]

Frame(op, pc, user, arg, doc, status) ==
    [op |-> op, pc |-> pc, user |-> user, arg |-> arg, doc |-> doc, status |-> status]

\* res.status(code).json(...): the handler has answered
Respond(r, op, user, arg, doc, code) ==
    reqs' = [reqs EXCEPT ![r] = Frame(op, "done", user, arg, doc, code)]

\* request r arrives: requests are numbered in the order the server accepts them
Accept(r) ==
    /\ reqs[r].pc = "idle"
    /\ IF r = 1 THEN TRUE ELSE reqs[r - 1].pc # "idle"

(***************************************************************************)
(* createCommunity                                                         *)
(***************************************************************************)
FreeIds == {i \in 1..Len(CommunityIds) : communities[CommunityIds[i]] = NoDoc}

NewCommunityDocCountZero(id, name, userId) ==
    [_id |-> id, name |-> name, slug |-> slugify(name), visibility |-> "public",
     admin |-> userId, members |-> <<[user |-> userId, role |-> "admin"]>>,
     bannedUsers |-> {}, memberCount |-> 0]

\* the document Community.create persists; visibility and bannedUsers are schema defaults
NewCommunityDoc(id, name, userId) ==
    [_id |-> id, name |-> name, slug |-> slugify(name), visibility |-> "public",
     admin |-> userId, members |-> <<[user |-> userId, role |-> "admin"]>>,
     bannedUsers |-> {}, memberCount |-> 1]

\* unique indexes on name and slug: the insert fails with code 11000
DuplicateKey(name) ==
    \E id \in Existing : communities[id].name = name \/ communities[id].slug = slugify(name)

CreateCommunity(r, userId, name, description, categories) ==
    /\ Accept(r)
    /\ LET arg == [name |-> name, description |-> description, categories |-> categories]
       IN  IF name = EmptyString \/ description = EmptyString \/ categories = EmptyString
           THEN /\ Respond(r, "createCommunity", userId, arg, NoDoc, 400)
                /\ UNCHANGED communities
           ELSE IF DuplicateKey(name)
           THEN /\ Respond(r, "createCommunity", userId, arg, NoDoc, 400)
                /\ UNCHANGED communities
           ELSE /\ FreeIds # {}
                /\ LET id == CommunityIds[CHOOSE i \in FreeIds : \A j \in FreeIds : i <= j]
                       doc == NewCommunityDoc(id, name, userId)
                   IN  /\ communities' = [communities EXCEPT ![id] = doc]
                       /\ reqs' = [reqs EXCEPT ![r] =
                               Frame("createCommunity", "updateUser", userId, arg, doc, 0)]
    /\ UNCHANGED <<joinedCommunities, posts, notifications, accounts, files, fanout, now>>

\* UserModel.findByIdAndUpdate(userId, { $addToSet: { joinedCommunities } }), then 201;
\* a rejected update is caught and answered 500
CreateCommunityUpdateUser(r, ok) ==
    /\ reqs[r].op = "createCommunity" /\ reqs[r].pc = "updateUser"
    /\ LET f == reqs[r]
       IN  IF ok
           THEN /\ joinedCommunities' = [joinedCommunities EXCEPT ![f.user] = @ \cup {f.doc._id}]
                /\ Respond(r, f.op, f.user, f.arg, f.doc, 201)
           ELSE /\ UNCHANGED joinedCommunities
                /\ Respond(r, f.op, f.user, f.arg, f.doc, 500)
    /\ UNCHANGED <<communities, posts, notifications, accounts, files, fanout, now>>

(***************************************************************************)
(* getCommunityInformation                                                 *)
(***************************************************************************)
InformationStatusNoVisibilityCheck(community, requester) ==
    IF community = NoDoc THEN 404 ELSE 200

InformationStatus(community, requester) ==
    IF community = NoDoc THEN 404
    ELSE IF community.visibility = "private"
            /\ (requester = NoUser \/ ~isMember(community, requester))
    THEN 403
    ELSE 200

GetCommunityInformation(r, requester, idOrSlug) ==
    /\ Accept(r)
    /\ LET community == findCommunity(idOrSlug)
       IN  Respond(r, "getCommunityInformation", requester, [idOrSlug |-> idOrSlug],
                   community, InformationStatus(community, requester))
    /\ UNCHANGED <<communities, joinedCommunities, posts, notifications, accounts, files, fanout, now>>

(***************************************************************************)
(* joinCommunity                                                           *)
(***************************************************************************)
JoinGuardNoBanCheck(community, userId) ==
    IF community = NoDoc THEN 404
    ELSE IF isMember(community, userId) THEN 400
    ELSE IF community.visibility = "private" THEN 403
    ELSE 0

JoinGuardNoPrivateCheck(community, userId) ==
    IF community = NoDoc THEN 404
    ELSE IF isBanned(community, userId) THEN 403
    ELSE IF isMember(community, userId) THEN 400
    ELSE 0

\* the guards of joinCommunity in source order; 0 means the request goes on
JoinGuard(community, userId) ==
    IF community = NoDoc THEN 404
    ELSE IF isBanned(community, userId) THEN 403
    ELSE IF isMember(community, userId) THEN 400
    ELSE IF community.visibility = "private" THEN 403
    ELSE 0

JoinCommunity(r, userId, idOrSlug) ==
    /\ Accept(r)
    /\ LET community == findCommunity(idOrSlug)
           code == JoinGuard(community, userId)
           arg == [idOrSlug |-> idOrSlug]
       IN  IF code # 0
           THEN Respond(r, "joinCommunity", userId, arg, community, code)
           ELSE reqs' = [reqs EXCEPT ![r] =
                    Frame("joinCommunity", "addMember", userId, arg, community, 0)]
    /\ UNCHANGED <<communities, joinedCommunities, posts, notifications, accounts, files, fanout, now>>

addMemberNoCount(doc, userId) ==
    [doc EXCEPT !.members = Append(@, [user |-> userId, role |-> "member"])]

\* community.addMember(userId) on the fetched document
addMember(doc, userId) ==
    [doc EXCEPT !.members = Append(@, [user |-> userId, role |-> "member"]),
                !.memberCount = @ + 1]

\* how document.save() writes an array path the method changed: the whole array of the
\* fetched copy ("set"), or only the change, applied to the stored array ("delta")
SaveModes == {"set", "delta"}

\* document.save(): the paths addMember modified are written from the fetched copy
saveMembership(doc, mode) ==
    [communities EXCEPT ![doc._id] =
        [@ EXCEPT !.members = IF mode = "set" THEN doc.members
                              ELSE Append(@, doc.members[Len(doc.members)]),
                  !.memberCount = doc.memberCount]]

JoinAddMember(r, mode) ==
    /\ reqs[r].op = "joinCommunity" /\ reqs[r].pc = "addMember"
    /\ LET f == reqs[r]
       IN  IF isMember(f.doc, f.user)
           THEN \* addMember throws 'User is already a member'
                /\ Respond(r, f.op, f.user, f.arg, f.doc, 400)
                /\ UNCHANGED communities
           ELSE LET doc == addMember(f.doc, f.user)
                IN  /\ communities' = saveMembership(doc, mode)
                    /\ reqs' = [reqs EXCEPT ![r] =
                            Frame(f.op, "updateUser", f.user, f.arg, doc, 0)]
    /\ UNCHANGED <<joinedCommunities, posts, notifications, accounts, files, fanout, now>>

JoinUpdateUserSkipCache(r, ok) ==
    /\ reqs[r].op = "joinCommunity" /\ reqs[r].pc = "updateUser"
    /\ LET f == reqs[r]
       IN  Respond(r, f.op, f.user, f.arg, f.doc, IF ok THEN 200 ELSE 500)
    /\ UNCHANGED <<communities, joinedCommunities, posts, notifications, accounts, files, fanout, now>>

JoinUpdateUser(r, ok) ==
    /\ reqs[r].op = "joinCommunity" /\ reqs[r].pc = "updateUser"
    /\ LET f == reqs[r]
       IN  IF ok
           THEN /\ joinedCommunities' = [joinedCommunities EXCEPT ![f.user] = @ \cup {f.doc._id}]
                /\ Respond(r, f.op, f.user, f.arg, f.doc, 200)
           ELSE /\ UNCHANGED joinedCommunities
                /\ Respond(r, f.op, f.user, f.arg, f.doc, 500)
    /\ UNCHANGED <<communities, posts, notifications, accounts, files, fanout, now>>

(***************************************************************************)
(* Posts: createPost, the detached notification fan-out, togglePostVote    *)
(***************************************************************************)
OidP == Rep("b", ObjectIdHexLen - 1) \o <<"1">>
OidQ == Rep("b", ObjectIdHexLen - 1) \o <<"2">>
PostIds == <<OidP, OidQ>>
PostIdSet == {PostIds[i] : i \in 1..Len(PostIds)}

FreePostIds == {i \in 1..Len(PostIds) : posts[PostIds[i]] = NoDoc}

TitleLen == 50

NoFile == "none"

\* fileFilter of the upload middleware: only image extensions pass
fileFilter(ext) == ext \in {".jpeg", ".jpg", ".png", ".gif", ".webp"}

\* the post type createPost derives from the attached file's extension
postType(ext) ==
    IF ext = NoFile THEN "text"
    ELSE IF ext \in {".jpg", ".jpeg", ".png", ".gif", ".webp"} THEN "image"
    ELSE IF ext \in {".mp4", ".mov", ".webm"} THEN "video"
    ELSE "image"

substring(s, n) == SubSeq(s, 1, IF Len(s) < n THEN Len(s) ELSE n)

NewPostDoc(id, content, communityId, author, title, ext) ==
    [_id |-> id, content |-> content, community |-> communityId, author |-> author,
     title |-> IF title # EmptyString THEN title ELSE substring(content, TitleLen),
     type |-> postType(ext), upvotes |-> {}, isDeleted |-> FALSE]

CreatePost(r, author, content, communityId, title, ext) ==
    /\ Accept(r)
    /\ LET arg == [content |-> content, communityId |-> communityId, thrown |-> "none"]
       IN  IF ext # NoFile /\ ~fileFilter(ext)
           THEN /\ Respond(r, "createPost", author, arg, NoDoc, 400)
                /\ UNCHANGED posts
           ELSE IF content = EmptyString \/ communityId = EmptyString
           THEN /\ Respond(r, "createPost", author, arg, NoDoc, 400)
                /\ UNCHANGED posts
           ELSE IF ~isObjectId(communityId)
           THEN \* Post.create rejects the community path: caught, 500
                /\ Respond(r, "createPost", author, [arg EXCEPT !.thrown = "create"], NoDoc, 500)
                /\ UNCHANGED posts
           ELSE /\ FreePostIds # {}
                /\ LET id == PostIds[CHOOSE i \in FreePostIds : \A j \in FreePostIds : i <= j]
                       doc == NewPostDoc(id, content, communityId, author, title, ext)
                   IN  /\ posts' = [posts EXCEPT ![id] = doc]
                       /\ reqs' = [reqs EXCEPT ![r] =
                               Frame("createPost", "populate", author, arg, doc, 0)]
    /\ UNCHANGED <<communities, joinedCommunities, notifications, accounts, files, fanout, now>>

PublishOutcomes == {"none", "populate", "emit"}

createPostStatusSwallowEmit(thrown) == IF thrown = "populate" THEN 500 ELSE 201

\* lines 85-100: a throw of Post.findById or of the emit reaches the catch
createPostStatus(thrown) == IF thrown = "none" THEN 201 ELSE 500

\* Post.findById(...).populate, the newPost broadcast, the detached fan-out call, the answer
CreatePostPublish(r, thrown) ==
    /\ reqs[r].op = "createPost" /\ reqs[r].pc = "populate"
    /\ LET f == reqs[r]
       IN  /\ Respond(r, f.op, f.user, [f.arg EXCEPT !.thrown = thrown], f.doc,
                      createPostStatus(thrown))
           /\ fanout' = IF thrown = "none"
                        THEN fanout \cup {[post |-> f.doc._id, communityId |-> f.arg.communityId,
                                           authorId |-> f.user, pc |-> "find", memberIds |-> <<>>]}
                        ELSE fanout
    /\ UNCHANGED <<communities, joinedCommunities, posts, notifications, accounts, files, now>>

RECURSIVE SelectSeqUsers(_, _)
\* community.members.filter(member => member.user !== authorId).map(member => member.user)
SelectSeqUsers(members, authorId) ==
    IF members = <<>> THEN <<>>
    ELSE (IF Head(members).user # authorId THEN <<Head(members).user>> ELSE <<>>)
         \o SelectSeqUsers(Tail(members), authorId)

recipientsWithAuthor(members, authorId) == [i \in 1..Len(members) |-> members[i].user]

recipients(members, authorId) == SelectSeqUsers(members, authorId)

\* notifyCommunityMembers up to Notification.insertMany
NotifyFind(t) ==
    /\ t \in fanout /\ t.pc = "find"
    /\ LET community == findById(t.communityId)
       IN  fanout' = (fanout \ {t}) \cup
               {IF community = NoDoc
                THEN [t EXCEPT !.pc = "nocommunity"]
                ELSE [t EXCEPT !.pc = "insert",
                               !.memberIds = recipients(community.members, t.authorId)]}
    /\ UNCHANGED <<communities, joinedCommunities, posts, notifications, accounts, files, now, reqs>>

postNotification(t, memberId) ==
    [user |-> memberId, type |-> "post",
     data |-> [communityId |-> t.communityId, postId |-> t.post]]

\* Notification.insertMany(notifications); a rejection is logged and swallowed
NotifyInsert(t, ok) ==
    /\ t \in fanout /\ t.pc = "insert"
    /\ notifications' = IF ok
                        THEN notifications \o [i \in 1..Len(t.memberIds) |->
                                                   postNotification(t, t.memberIds[i])]
                        ELSE notifications
    /\ fanout' = (fanout \ {t}) \cup {[t EXCEPT !.pc = IF ok THEN "sent" ELSE "failed"]}
    /\ UNCHANGED <<communities, joinedCommunities, posts, accounts, files, now, reqs>>

PostKeys == {OidP, OidQ, <<"p">>}

TogglePostVote(r, userId, postId) ==
    /\ Accept(r)
    /\ LET arg == [postId |-> postId, before |-> {}, thrown |-> "none"]
       IN  IF ~isObjectId(postId)
           THEN \* Post.findById rejects the id: caught, 500
                Respond(r, "togglePostVote", userId, [arg EXCEPT !.thrown = "find"], NoDoc, 500)
           ELSE IF postId \notin PostIdSet \/ posts[postId] = NoDoc
           THEN Respond(r, "togglePostVote", userId, arg, NoDoc, 404)
           ELSE reqs' = [reqs EXCEPT ![r] =
                    Frame("togglePostVote", "upvote", userId,
                          [arg EXCEPT !.before = posts[postId].upvotes], posts[postId], 0)]
    /\ UNCHANGED <<communities, joinedCommunities, posts, notifications, accounts, files, fanout, now>>

upvoteAddOnly(doc, userId) == [doc EXCEPT !.upvotes = @ \cup {userId}]

\* post.upvote(userId) on the fetched document
upvote(doc, userId) ==
    [doc EXCEPT !.upvotes = IF userId \in @ THEN @ \ {userId} ELSE @ \cup {userId}]

\* document.save(): the upvotes path is written from the fetched copy
TogglePostVoteSaveUnsaved(r, mode) ==
    /\ reqs[r].op = "togglePostVote" /\ reqs[r].pc = "upvote"
    /\ LET f == reqs[r]
           doc == upvote(f.doc, f.user)
       IN  /\ UNCHANGED posts
           /\ reqs' = [reqs EXCEPT ![r] = Frame(f.op, "populate", f.user, f.arg, doc, 0)]
    /\ UNCHANGED <<communities, joinedCommunities, notifications, accounts, files, fanout, now>>

\* document.save(): the upvotes path is written from the fetched copy, whole or as the change
saveVote(doc, userId, mode) ==
    [posts EXCEPT ![doc._id] =
        [@ EXCEPT !.upvotes = IF mode = "set" THEN doc.upvotes
                              ELSE IF userId \in doc.upvotes THEN @ \cup {userId}
                              ELSE @ \ {userId}]]

TogglePostVoteSave(r, mode) ==
    /\ reqs[r].op = "togglePostVote" /\ reqs[r].pc = "upvote"
    /\ LET f == reqs[r]
           doc == upvote(f.doc, f.user)
       IN  /\ posts' = saveVote(doc, f.user, mode)
           /\ reqs' = [reqs EXCEPT ![r] = Frame(f.op, "populate", f.user, f.arg, doc, 0)]
    /\ UNCHANGED <<communities, joinedCommunities, notifications, accounts, files, fanout, now>>

votePostStatusSwallowEmit(thrown) == IF thrown = "populate" THEN 500 ELSE 200

\* lines 155-167: a throw of Post.findById or of the emit reaches the catch
votePostStatus(thrown) == IF thrown = "none" THEN 200 ELSE 500

\* Post.findById(...).populate, the postUpdated broadcast, the answer
TogglePostVotePublish(r, thrown) ==
    /\ reqs[r].op = "togglePostVote" /\ reqs[r].pc = "populate"
    /\ LET f == reqs[r]
       IN  Respond(r, f.op, f.user, [f.arg EXCEPT !.thrown = thrown], f.doc,
                   votePostStatus(thrown))
    /\ UNCHANGED <<communities, joinedCommunities, posts, notifications, accounts, files, fanout, now>>

(***************************************************************************)
(* Accounts: register, verifyEmail, resendOTP, forgotPassword,             *)
(* resetPassword                                                           *)
(***************************************************************************)
EmailA == <<"a", "@", "x", ".", "i", "o">>
EmailB == <<"b", "@", "x", ".", "i", "o">>
EmailBad == <<"a", "@", "x">>
Emails == {EmailA, EmailB}

Usernames == {<<"a", "n", "n">>, <<"b", "o", "b">>}

Codes == {"111111", "222222"}
NoCode == "undefined"
NoExpiry == 0 - 1

OtpMinutes == 10
PasswordMin == 6
BioMax == 250
MaxImageSize == 5

TickMinutes == 6
MaxTime == 12

PwShort == Rep("p", PasswordMin - 1)
PwOld == Rep("p", PasswordMin)
PwNew == Rep("q", PasswordMin)

\* the pre-save hook stores a hash of the password, never the text
hashOf(password) == [bcrypt |-> password]

\* email.match(/.+@.+\..+/)
emailFormat(email) ==
    \E i, j \in 1..Len(email) :
        /\ 1 < i /\ email[i] = "@"
        /\ i + 1 < j /\ email[j] = "."
        /\ j < Len(email)

KnownEmails == {e \in Emails : accounts[e] # NoDoc}

\* User.findOne({ email })
findUser(email) == IF email \in KnownEmails THEN accounts[email] ELSE NoDoc

\* User.findOne({ $or: [{ email }, { username }] })
findExisting(email, username) ==
    IF email \in KnownEmails THEN accounts[email]
    ELSE IF \E e \in KnownEmails : accounts[e].username = username
    THEN accounts[CHOOSE e \in KnownEmails : accounts[e].username = username]
    ELSE NoDoc

\* user.generateOTP(): a fresh code for e-mail verification, valid for ten minutes
generateOTP(doc, code) ==
    [doc EXCEPT !.emailVerificationOTP = code, !.otpExpires = now + OtpMinutes]

\* user.getResetPasswordOTP(): a fresh code for the password reset, valid for ten minutes
getResetPasswordOTP(doc, code) ==
    [doc EXCEPT !.resetPasswordToken = code, !.resetPasswordExpires = now + OtpMinutes]

verifyOTPIgnoreExpiry(doc, otp) ==
    /\ doc.emailVerificationOTP # NoCode
    /\ doc.emailVerificationOTP = otp

\* user.verifyOTP(otp): a code is stored, has not expired, and matches
verifyOTP(doc, otp) ==
    /\ doc.emailVerificationOTP # NoCode
    /\ doc.otpExpires # NoExpiry
    /\ now <= doc.otpExpires
    /\ doc.emailVerificationOTP = otp

verifyResetPasswordOTPIgnoreExpiry(doc, otp) ==
    /\ doc.resetPasswordToken # NoCode
    /\ doc.resetPasswordToken = otp

\* user.verifyResetPasswordOTP(otp): a code is stored, has not expired, and matches
verifyResetPasswordOTP(doc, otp) ==
    /\ doc.resetPasswordToken # NoCode
    /\ doc.resetPasswordExpires # NoExpiry
    /\ now <= doc.resetPasswordExpires
    /\ doc.resetPasswordToken = otp

otpNotification(userId, code, purpose) ==
    [user |-> userId, type |-> "otp", data |-> [otp |-> code, purpose |-> purpose]]

welcomeNotification(userId) ==
    [user |-> userId, type |-> "welcome", data |-> [verified |-> TRUE]]

Tick ==
    /\ now + TickMinutes <= MaxTime
    /\ now' = now + TickMinutes
    /\ UNCHANGED <<communities, joinedCommunities, posts, notifications, accounts, files, fanout, reqs>>

MulterLimit == 5

Bio(n) == Rep("x", n)

RegisterInput(username, email, password, bio, interests, fileSize) ==
    [username |-> username, email |-> email, password |-> password, bio |-> bio,
     interests |-> interests, fileSize |-> fileSize]

Tech == <<"tech">>
Bogus == <<"bogus">>
MissingCode == ""

Ann == <<"a", "n", "n">>
Bob == <<"b", "o", "b">>

\* request bodies a client may send to /register; fileSize 0 is a request without a file
RegisterInputs ==
    { RegisterInput(Ann, EmailA, PwOld, Bio(BioMax), Tech, 1),
      RegisterInput(Bob, EmailB, PwOld, Bio(1), Tech, 1),
      RegisterInput(Ann, EmailB, PwOld, Bio(1), Tech, 1),
      RegisterInput(Bob, EmailA, PwOld, Bio(1), Tech, 1),
      RegisterInput(EmptyString, EmailA, PwOld, Bio(1), Tech, 1),
      RegisterInput(Ann, EmailA, PwOld, Bio(1), Tech, 0),
      RegisterInput(Ann, EmailA, PwShort, Bio(1), Tech, 1),
      RegisterInput(Ann, EmailBad, PwOld, Bio(1), Tech, 1),
      RegisterInput(Ann, EmailA, PwOld, Bio(BioMax + 1), Tech, 1),
      RegisterInput(Ann, EmailA, PwOld, Bio(1), Bogus, 1),
      RegisterInput(Ann, EmailA, PwOld, Bio(1), Tech, MulterLimit + 1) }

accountId(email) == IF email = EmailA THEN "A" ELSE "B"

NewUserDoc(in) ==
    [_id |-> accountId(in.email), username |-> in.username, email |-> in.email,
     password |-> hashOf(in.password), bio |-> in.bio,
     isEmailVerified |-> FALSE, emailVerificationOTP |-> NoCode, otpExpires |-> NoExpiry,
     resetPasswordToken |-> NoCode, resetPasswordExpires |-> NoExpiry]

\* the status register answers before it touches the store: 0 means the request goes on.
\* fs is the promise API of the file system, which has no unlinkSync: the calls at
\* lines 152-204 throw a TypeError that the catch answers with 500
registerGuard(in, existingUser) ==
    IF in.username = EmptyString \/ in.email = EmptyString \/ in.password = EmptyString
       \/ in.bio = EmptyString \/ in.fileSize = 0 \/ in.interests = EmptyString
    THEN 400
    ELSE IF Len(in.password) < PasswordMin THEN 500
    ELSE IF ~emailFormat(in.email) THEN 500
    ELSE IF Len(in.bio) > BioMax THEN 500
    ELSE IF in.fileSize > MaxImageSize THEN 500
    ELSE IF existingUser # NoDoc THEN 500
    ELSE 0

Register(r, in) ==
    /\ Accept(r)
    /\ LET file == r
           arg == [in |-> in, file |-> IF in.fileSize = 0 THEN 0 ELSE file]
       IN  IF in.fileSize > MulterLimit
           THEN \* the upload middleware answers and keeps no file
                /\ Respond(r, "register", NoUser, [arg EXCEPT !.file = 0], NoDoc, 400)
                /\ UNCHANGED files
           ELSE LET code == registerGuard(in, findExisting(in.email, in.username))
                IN  /\ files' = IF in.fileSize = 0 \/ code = 500 THEN files ELSE files \cup {file}
                    /\ IF code # 0
                       THEN Respond(r, "register", NoUser, arg, NoDoc, code)
                       ELSE reqs' = [reqs EXCEPT ![r] = Frame("register", "create", NoUser, arg, NoDoc, 0)]
    /\ UNCHANGED <<communities, joinedCommunities, posts, notifications, accounts, fanout, now>>

\* User.create: the unique indexes reject a duplicate (caught, 500), the schema rejects an
\* unknown interest (ValidationError, 400); the catch deletes the staged file
RegisterCreate(r) ==
    /\ reqs[r].op = "register" /\ reqs[r].pc = "create"
    /\ LET f == reqs[r]
           in == f.arg.in
       IN  IF findExisting(in.email, in.username) # NoDoc
           THEN /\ files' = files \ {f.arg.file}
                /\ Respond(r, f.op, f.user, f.arg, NoDoc, 500)
                /\ UNCHANGED accounts
           ELSE IF in.interests = Bogus
           THEN /\ files' = files \ {f.arg.file}
                /\ Respond(r, f.op, f.user, f.arg, NoDoc, 400)
                /\ UNCHANGED accounts
           ELSE /\ accounts' = [accounts EXCEPT ![in.email] = NewUserDoc(in)]
                /\ reqs' = [reqs EXCEPT ![r] = Frame(f.op, "saveOtp", f.user, f.arg, NewUserDoc(in), 0)]
                /\ UNCHANGED files
    /\ UNCHANGED <<communities, joinedCommunities, posts, notifications, fanout, now>>

saveOTPKeepFirst(doc) ==
    [accounts EXCEPT ![doc.email] =
        IF @.emailVerificationOTP = NoCode
        THEN [@ EXCEPT !.emailVerificationOTP = doc.emailVerificationOTP, !.otpExpires = doc.otpExpires]
        ELSE @]

\* document.save() after generateOTP: the two OTP paths are written
saveOTP(doc) ==
    [accounts EXCEPT ![doc.email] =
        [@ EXCEPT !.emailVerificationOTP = doc.emailVerificationOTP, !.otpExpires = doc.otpExpires]]

RegisterSaveOtp(r, code) ==
    /\ reqs[r].op = "register" /\ reqs[r].pc = "saveOtp"
    /\ LET f == reqs[r]
           doc == generateOTP(f.doc, code)
       IN  /\ accounts' = saveOTP(doc)
           /\ reqs' = [reqs EXCEPT ![r] = Frame(f.op, "notify", f.user, f.arg, doc, 0)]
    /\ UNCHANGED <<communities, joinedCommunities, posts, notifications, files, fanout, now>>

RegisterNotify(r) ==
    /\ reqs[r].op = "register" /\ reqs[r].pc = "notify"
    /\ LET f == reqs[r]
       IN  /\ notifications' = Append(notifications,
                   otpNotification(f.doc._id, f.doc.emailVerificationOTP, "email_verification"))
           /\ Respond(r, f.op, f.user, f.arg, f.doc, 201)
    /\ UNCHANGED <<communities, joinedCommunities, posts, accounts, files, fanout, now>>

(***************************************************************************)
(* verifyEmail and resendOTP                                               *)
(***************************************************************************)
verifyEmailGuardNoOtpCheck(email, otp, user) ==
    IF email = EmptyString \/ otp = MissingCode THEN 400
    ELSE IF user = NoDoc THEN 404
    ELSE IF user.isEmailVerified THEN 400
    ELSE 0

\* the checks of verifyEmail in source order; 0 means the request goes on
verifyEmailGuard(email, otp, user) ==
    IF email = EmptyString \/ otp = MissingCode THEN 400
    ELSE IF user = NoDoc THEN 404
    ELSE IF user.isEmailVerified THEN 400
    ELSE IF ~verifyOTP(user, otp) THEN 400
    ELSE 0

VerifyEmailClearOnMismatch(r, email, otp) ==
    /\ Accept(r)
    /\ LET user == findUser(email)
           code == verifyEmailGuard(email, otp, user)
           arg == [email |-> email, otp |-> otp]
       IN  IF code # 0
           THEN /\ Respond(r, "verifyEmail", NoUser, arg, user, code)
                /\ accounts' = IF user # NoDoc /\ ~user.isEmailVerified
                               THEN [accounts EXCEPT ![email].emailVerificationOTP = NoCode,
                                                     ![email].otpExpires = NoExpiry]
                               ELSE accounts
           ELSE /\ reqs' = [reqs EXCEPT ![r] =
                    Frame("verifyEmail", "save", NoUser, arg,
                          [user EXCEPT !.isEmailVerified = TRUE,
                                       !.emailVerificationOTP = NoCode,
                                       !.otpExpires = NoExpiry], 0)]
                /\ UNCHANGED accounts
    /\ UNCHANGED <<communities, joinedCommunities, posts, notifications, files, fanout, now>>

VerifyEmail(r, email, otp) ==
    /\ Accept(r)
    /\ LET user == findUser(email)
           code == verifyEmailGuard(email, otp, user)
           arg == [email |-> email, otp |-> otp]
       IN  IF code # 0
           THEN Respond(r, "verifyEmail", NoUser, arg, user, code)
           ELSE reqs' = [reqs EXCEPT ![r] =
                    Frame("verifyEmail", "save", NoUser, arg,
                          [user EXCEPT !.isEmailVerified = TRUE,
                                       !.emailVerificationOTP = NoCode,
                                       !.otpExpires = NoExpiry], 0)]
    /\ UNCHANGED <<communities, joinedCommunities, posts, notifications, accounts, files, fanout, now>>

saveVerifiedKeepOtp(doc) ==
    [accounts EXCEPT ![doc.email] = [@ EXCEPT !.isEmailVerified = doc.isEmailVerified]]

\* document.save() of verifyEmail: the flag and the two OTP paths are written
saveVerified(doc) ==
    [accounts EXCEPT ![doc.email] =
        [@ EXCEPT !.isEmailVerified = doc.isEmailVerified,
                  !.emailVerificationOTP = doc.emailVerificationOTP,
                  !.otpExpires = doc.otpExpires]]

VerifyEmailSave(r) ==
    /\ reqs[r].op = "verifyEmail" /\ reqs[r].pc = "save"
    /\ accounts' = saveVerified(reqs[r].doc)
    /\ reqs' = [reqs EXCEPT ![r].pc = "notify"]
    /\ UNCHANGED <<communities, joinedCommunities, posts, notifications, files, fanout, now>>

VerifyEmailNotify(r, ok) ==
    /\ reqs[r].op = "verifyEmail" /\ reqs[r].pc = "notify"
    /\ LET f == reqs[r]
       IN  IF ok
           THEN /\ notifications' = Append(notifications, welcomeNotification(f.doc._id))
                /\ Respond(r, f.op, f.user, f.arg, f.doc, 200)
           ELSE /\ UNCHANGED notifications
                /\ Respond(r, f.op, f.user, f.arg, f.doc, 500)
    /\ UNCHANGED <<communities, joinedCommunities, posts, accounts, files, fanout, now>>

resendGuard(email, user) ==
    IF email = EmptyString THEN 400
    ELSE IF user = NoDoc THEN 404
    ELSE IF user.isEmailVerified THEN 400
    ELSE 0

ResendOTP(r, email, code) ==
    /\ Accept(r)
    /\ LET user == findUser(email)
           status == resendGuard(email, user)
           arg == [email |-> email, otp |-> MissingCode]
       IN  IF status # 0
           THEN Respond(r, "resendOTP", NoUser, arg, user, status)
           ELSE reqs' = [reqs EXCEPT ![r] =
                    Frame("resendOTP", "save", NoUser, arg, generateOTP(user, code), 0)]
    /\ UNCHANGED <<communities, joinedCommunities, posts, notifications, accounts, files, fanout, now>>

ResendOTPSave(r) ==
    /\ reqs[r].op = "resendOTP" /\ reqs[r].pc = "save"
    /\ accounts' = saveOTP(reqs[r].doc)
    /\ reqs' = [reqs EXCEPT ![r].pc = "notify"]
    /\ UNCHANGED <<communities, joinedCommunities, posts, notifications, files, fanout, now>>

ResendOTPNotify(r) ==
    /\ reqs[r].op = "resendOTP" /\ reqs[r].pc = "notify"
    /\ LET f == reqs[r]
       IN  /\ notifications' = Append(notifications,
                   otpNotification(f.doc._id, f.doc.emailVerificationOTP, "email_verification"))
           /\ Respond(r, f.op, f.user, f.arg, f.doc, 200)
    /\ UNCHANGED <<communities, joinedCommunities, posts, accounts, files, fanout, now>>

(***************************************************************************)
(* forgotPassword and resetPassword                                        *)
(***************************************************************************)
ForgotPassword(r, email, code) ==
    /\ Accept(r)
    /\ LET user == findUser(email)
           arg == [email |-> email, otp |-> MissingCode]
       IN  IF email = EmptyString
           THEN Respond(r, "forgotPassword", NoUser, arg, NoDoc, 400)
           ELSE IF user = NoDoc
           THEN Respond(r, "forgotPassword", NoUser, arg, NoDoc, 200)
           ELSE reqs' = [reqs EXCEPT ![r] =
                    Frame("forgotPassword", "save", NoUser, arg, getResetPasswordOTP(user, code), 0)]
    /\ UNCHANGED <<communities, joinedCommunities, posts, notifications, accounts, files, fanout, now>>

\* document.save() after getResetPasswordOTP: the two reset paths are written
saveResetOTP(doc) ==
    [accounts EXCEPT ![doc.email] =
        [@ EXCEPT !.resetPasswordToken = doc.resetPasswordToken,
                  !.resetPasswordExpires = doc.resetPasswordExpires]]

ForgotPasswordSave(r) ==
    /\ reqs[r].op = "forgotPassword" /\ reqs[r].pc = "save"
    /\ accounts' = saveResetOTP(reqs[r].doc)
    /\ reqs' = [reqs EXCEPT ![r].pc = "notify"]
    /\ UNCHANGED <<communities, joinedCommunities, posts, notifications, files, fanout, now>>

\* the answer of a known account carries the code (otp) besides success: true
ForgotPasswordNotify(r) ==
    /\ reqs[r].op = "forgotPassword" /\ reqs[r].pc = "notify"
    /\ LET f == reqs[r]
       IN  /\ notifications' = Append(notifications,
                   otpNotification(f.doc._id, f.doc.resetPasswordToken, "password_reset"))
           /\ Respond(r, f.op, f.user, [f.arg EXCEPT !.otp = f.doc.resetPasswordToken], f.doc, 200)
    /\ UNCHANGED <<communities, joinedCommunities, posts, accounts, files, fanout, now>>

resetGuard(email, otp, newPassword, user) ==
    IF email = EmptyString \/ otp = MissingCode \/ newPassword = EmptyString THEN 400
    ELSE IF Len(newPassword) < PasswordMin THEN 400
    ELSE IF user = NoDoc THEN 404
    ELSE 0

resetOutcomeKeepToken(user, otp, newPassword) ==
    IF ~verifyResetPasswordOTP(user, otp)
    THEN [doc |-> user, pc |-> "saveCleared"]
    ELSE [doc |-> [user EXCEPT !.password = hashOf(newPassword),
                               !.resetPasswordToken = NoCode,
                               !.resetPasswordExpires = NoExpiry],
          pc |-> "saveNew"]

\* lines 98-116: what resetPassword sets on the fetched document before it saves
resetOutcome(user, otp, newPassword) ==
    IF ~verifyResetPasswordOTP(user, otp)
    THEN [doc |-> [user EXCEPT !.resetPasswordToken = NoCode,
                               !.resetPasswordExpires = NoExpiry],
          pc |-> "saveCleared"]
    ELSE [doc |-> [user EXCEPT !.password = hashOf(newPassword),
                               !.resetPasswordToken = NoCode,
                               !.resetPasswordExpires = NoExpiry],
          pc |-> "saveNew"]

ResetPassword(r, email, otp, newPassword) ==
    /\ Accept(r)
    /\ LET user == findUser(email)
           code == resetGuard(email, otp, newPassword, user)
           arg == [email |-> email, otp |-> otp]
       IN  IF code # 0
           THEN Respond(r, "resetPassword", NoUser, arg, NoDoc, code)
           ELSE LET out == resetOutcome(user, otp, newPassword)
                IN  reqs' = [reqs EXCEPT ![r] =
                        Frame("resetPassword", out.pc, NoUser, arg, out.doc, 0)]
    /\ UNCHANGED <<communities, joinedCommunities, posts, notifications, accounts, files, fanout, now>>

\* document.save() of the failed check: the two reset paths are written
saveResetCleared(doc) ==
    [accounts EXCEPT ![doc.email] =
        [@ EXCEPT !.resetPasswordToken = doc.resetPasswordToken,
                  !.resetPasswordExpires = doc.resetPasswordExpires]]

ResetPasswordSaveCleared(r) ==
    /\ reqs[r].op = "resetPassword" /\ reqs[r].pc = "saveCleared"
    /\ LET f == reqs[r]
       IN  /\ accounts' = saveResetCleared(f.doc)
           /\ Respond(r, f.op, f.user, f.arg, f.doc, 400)
    /\ UNCHANGED <<communities, joinedCommunities, posts, notifications, files, fanout, now>>

\* document.save() of the accepted reset: password and the two reset paths are written
saveNewPassword(doc) ==
    [accounts EXCEPT ![doc.email] =
        [@ EXCEPT !.password = doc.password,
                  !.resetPasswordToken = doc.resetPasswordToken,
                  !.resetPasswordExpires = doc.resetPasswordExpires]]

ResetPasswordSaveNew(r) ==
    /\ reqs[r].op = "resetPassword" /\ reqs[r].pc = "saveNew"
    /\ LET f == reqs[r]
       IN  /\ accounts' = saveNewPassword(f.doc)
           /\ Respond(r, f.op, f.user, f.arg, f.doc, 200)
    /\ UNCHANGED <<communities, joinedCommunities, posts, notifications, files, fanout, now>>

(***************************************************************************)
(* Initial state and the specifications                                    *)
(***************************************************************************)
\* a community the store holds at start-up, with the fields moderation has set
SeedCommunity(visibility, members, bannedUsers) ==
    [_id |-> OidX, name |-> SeedName, slug |-> slugify(SeedName), visibility |-> visibility,
     admin |-> "A", members |-> members, bannedUsers |-> bannedUsers,
     memberCount |-> Len(members)]

SeedAdminOnly == <<[user |-> "A", role |-> "admin"]>>
SeedWithMember == <<[user |-> "A", role |-> "admin"], [user |-> "B", role |-> "member"]>>

\* an account the store holds at start-up: registered at minute 0, not yet verified
SeedAccount(resetCode) ==
    [_id |-> accountId(EmailA), username |-> Ann, email |-> EmailA,
     password |-> hashOf(PwOld), bio |-> Bio(1),
     isEmailVerified |-> FALSE, emailVerificationOTP |-> "111111", otpExpires |-> OtpMinutes,
     resetPasswordToken |-> resetCode,
     resetPasswordExpires |-> IF resetCode = NoCode THEN NoExpiry ELSE OtpMinutes]

\* a post of A in the seeded community that the store holds at start-up
SeedPost(upvotes) ==
    [_id |-> OidP, content |-> SomeText, community |-> OidX, author |-> "A",
     title |-> SomeText, type |-> "text", upvotes |-> upvotes, isDeleted |-> FALSE]

InitStore(visibilities, memberLists, bans, seedAccounts, seedPosts) ==
    /\ \E visibility \in visibilities, members \in memberLists, bannedUsers \in bans :
          LET seed == SeedCommunity(visibility, members, bannedUsers)
          IN  /\ communities = [id \in CommunityIdSet |-> IF id = OidX THEN seed ELSE NoDoc]
              /\ joinedCommunities = [u \in Users |-> IF isMember(seed, u) THEN {OidX} ELSE {}]
    /\ \E p \in seedPosts : posts = [id \in PostIdSet |-> IF id = OidP THEN p ELSE NoDoc]
    /\ notifications = <<>>
    /\ \E a \in seedAccounts : accounts = [e \in Emails |-> IF e = EmailA THEN a ELSE NoDoc]
    /\ files = {}
    /\ fanout = {}
    /\ now = 0
    /\ reqs = [r \in Reqs |-> Idle]

SeedAccounts == {NoDoc, SeedAccount(NoCode), SeedAccount("222222")}

SeedPosts == {NoDoc, SeedPost({}), SeedPost({"B"})}

Init == InitStore(Visibilities, {SeedAdminOnly, SeedWithMember}, {{}, {"C"}}, SeedAccounts, SeedPosts)
InitCommunity == InitStore(Visibilities, {SeedAdminOnly}, {{}, {"C"}}, {NoDoc}, {NoDoc})
InitPost == InitStore({"public"}, {SeedAdminOnly, SeedWithMember}, {{}}, {NoDoc}, {SeedPost({"B"})})
InitAuth == InitStore({"public"}, {SeedAdminOnly}, {{}}, {SeedAccount("222222")}, {NoDoc})

CreateInput(name, description, categories) ==
    [name |-> name, description |-> description, categories |-> categories]

\* request bodies a client may send to /communities/create
CreateInputs ==
    {CreateInput(name, SomeText, SomeText) : name \in Names}
    \cup {CreateInput(OidX, EmptyString, SomeText)}

PostInput(content, communityId, title, ext) ==
    [content |-> content, communityId |-> communityId, title |-> title, ext |-> ext]

\* request bodies a client may send to /posts
PostInputs ==
    { PostInput(SomeText, OidX, EmptyString, NoFile),
      PostInput(SomeText, OidX, SomeText, ".png"),
      PostInput(SomeText, OidY, EmptyString, NoFile),
      PostInput(SomeText, SeedSlug, EmptyString, NoFile),
      PostInput(EmptyString, OidX, EmptyString, NoFile),
      PostInput(SomeText, EmptyString, EmptyString, NoFile),
      PostInput(SomeText, OidX, EmptyString, ".mp4") }

NextCommunity ==
    \/ \E r \in Reqs, u \in {"B"}, in \in CreateInputs :
          CreateCommunity(r, u, in.name, in.description, in.categories)
    \/ \E r \in Reqs, ok \in BOOLEAN : CreateCommunityUpdateUser(r, ok)
    \/ \E r \in Reqs, u \in {NoUser, "A", "C"}, k \in {OidX, OidY, SeedName} :
          GetCommunityInformation(r, u, k)
    \/ \E r \in Reqs, u \in Users, k \in {OidX, OidY, SeedSlug} : JoinCommunity(r, u, k)
    \/ \E r \in Reqs, mode \in SaveModes : JoinAddMember(r, mode)
    \/ \E r \in Reqs, ok \in BOOLEAN : JoinUpdateUser(r, ok)

NextPost ==
    \/ \E r \in Reqs, u \in {"A", "C"}, in \in PostInputs :
          CreatePost(r, u, in.content, in.communityId, in.title, in.ext)
    \/ \E r \in Reqs, thrown \in PublishOutcomes : CreatePostPublish(r, thrown)
    \/ \E t \in fanout : NotifyFind(t)
    \/ \E t \in fanout, ok \in BOOLEAN : NotifyInsert(t, ok)
    \/ \E r \in Reqs, u \in Users, p \in PostKeys : TogglePostVote(r, u, p)
    \/ \E r \in Reqs, mode \in SaveModes : TogglePostVoteSave(r, mode)
    \/ \E r \in Reqs, thrown \in PublishOutcomes : TogglePostVotePublish(r, thrown)
    \/ \E r \in Reqs, u \in Users, k \in {OidX} : JoinCommunity(r, u, k)
    \/ \E r \in Reqs, mode \in SaveModes : JoinAddMember(r, mode)
    \/ \E r \in Reqs, ok \in BOOLEAN : JoinUpdateUser(r, ok)

\* request bodies of the e-mail and password handlers
AccountKeys == {EmailA, EmailB, EmptyString}

VerifyInputs ==
    {[email |-> EmailA, otp |-> c] : c \in Codes}
        \cup {[email |-> EmailB, otp |-> "111111"],
              [email |-> EmailA, otp |-> MissingCode],
              [email |-> EmptyString, otp |-> "111111"]}

ResetInputs ==
    {[email |-> EmailA, otp |-> c, newPassword |-> PwNew] : c \in Codes}
        \cup {[email |-> EmailA, otp |-> "222222", newPassword |-> PwShort],
              [email |-> EmailA, otp |-> MissingCode, newPassword |-> PwNew],
              [email |-> EmailA, otp |-> "222222", newPassword |-> EmptyString],
              [email |-> EmailB, otp |-> "222222", newPassword |-> PwNew],
              [email |-> EmptyString, otp |-> "222222", newPassword |-> PwNew]}

NextAuth ==
    \/ \E r \in Reqs, in \in {i \in RegisterInputs : Len(i.bio) = 1 /\ i.fileSize = 1} :
          Register(r, in)
    \/ \E r \in Reqs : RegisterCreate(r)
    \/ \E r \in Reqs, code \in Codes : RegisterSaveOtp(r, code)
    \/ \E r \in Reqs : RegisterNotify(r)
    \/ \E r \in Reqs, in \in VerifyInputs : VerifyEmail(r, in.email, in.otp)
    \/ \E r \in Reqs : VerifyEmailSave(r)
    \/ \E r \in Reqs, ok \in BOOLEAN : VerifyEmailNotify(r, ok)
    \/ \E r \in Reqs, e \in AccountKeys, code \in Codes : ResendOTP(r, e, code)
    \/ \E r \in Reqs : ResendOTPSave(r)
    \/ \E r \in Reqs : ResendOTPNotify(r)
    \/ \E r \in Reqs, e \in AccountKeys, code \in Codes : ForgotPassword(r, e, code)
    \/ \E r \in Reqs : ForgotPasswordSave(r)
    \/ \E r \in Reqs : ForgotPasswordNotify(r)
    \/ \E r \in Reqs, in \in ResetInputs : ResetPassword(r, in.email, in.otp, in.newPassword)
    \/ \E r \in Reqs : ResetPasswordSaveCleared(r)
    \/ \E r \in Reqs : ResetPasswordSaveNew(r)
    \/ Tick

\* registration alone, over every request body of RegisterInputs
InitRegister == InitStore({"public"}, {SeedAdminOnly}, {{}}, {NoDoc, SeedAccount(NoCode)}, {NoDoc})

NextRegister ==
    \/ \E r \in Reqs, in \in RegisterInputs : Register(r, in)
    \/ \E r \in Reqs : RegisterCreate(r)
    \/ \E r \in Reqs, code \in Codes : RegisterSaveOtp(r, code)
    \/ \E r \in Reqs : RegisterNotify(r)

Next == NextCommunity \/ NextPost \/ NextAuth

CommunitySpec == InitCommunity /\ [][NextCommunity]_vars
PostSpec == InitPost /\ [][NextPost]_vars
AuthSpec == InitAuth /\ [][NextAuth]_vars
RegisterSpec == InitRegister /\ [][NextRegister]_vars
Spec == Init /\ [][Next]_vars

(***************************************************************************)
(* Steps of a request, as seen between two states                          *)
(***************************************************************************)
\* request r is accepted as a call of op in this step
Arrives(r, op) == reqs[r].pc = "idle" /\ reqs'[r].op = op

\* request r leaves position pc in this step
Leaves(r, op, pc) == reqs[r].op = op /\ reqs[r].pc = pc /\ reqs'[r].pc # pc

Answered(r, op, code) == reqs[r].op = op /\ reqs[r].pc = "done" /\ reqs[r].status = code

(***************************************************************************)
(* C1: in every reachable state, after any interleaving of createCommunity *)
(* and joinCommunity requests, memberCount equals the number of entries of *)
(* members; createCommunity establishes one member and memberCount 1, and  *)
(* every successful joinCommunity adds exactly one entry to the stored     *)
(* list and raises the stored counter by exactly one.                      *)
(***************************************************************************)
CountMatches == \A id \in Existing : communities[id].memberCount = Len(communities[id].members)

C1_CountMatchesMembers ==
    /\ CountMatches
    /\ [][/\ CountMatches'
          /\ \A r \in Reqs :
                Arrives(r, "createCommunity") /\ reqs'[r].pc = "updateUser" =>
                    LET id == reqs'[r].doc._id
                    IN  communities'[id].memberCount = 1 /\ Len(communities'[id].members) = 1
          /\ \A r \in Reqs :
                Leaves(r, "joinCommunity", "addMember") /\ reqs'[r].pc = "updateUser" =>
                    LET id == reqs[r].doc._id
                    IN  /\ Len(communities'[id].members) = Len(communities[id].members) + 1
                        /\ communities'[id].memberCount = communities[id].memberCount + 1
         ]_vars

(***************************************************************************)
(* C2: no user is at once in bannedUsers and in members of a community; a  *)
(* joinCommunity by a banned user is answered 403 whatever the visibility  *)
(* and changes neither the community nor the user's joinedCommunities.     *)
(***************************************************************************)
BannedDisjoint == \A id \in Existing : communities[id].bannedUsers \cap MemberIds(communities[id]) = {}

BannedJoinRefused ==
    \A r \in Reqs :
        reqs[r].op = "joinCommunity" /\ reqs[r].doc # NoDoc /\ isBanned(reqs[r].doc, reqs[r].user)
            => reqs[r].pc = "done" /\ reqs[r].status = 403

C2_BannedNeverMember ==
    /\ BannedDisjoint
    /\ [][/\ BannedDisjoint' /\ BannedJoinRefused'
          /\ \A r \in Reqs :
                Arrives(r, "joinCommunity") /\ reqs'[r].doc # NoDoc
                   /\ isBanned(reqs'[r].doc, reqs'[r].user)
                    => UNCHANGED <<communities, joinedCommunities>>
         ]_vars

C2_Witness ==
    \E r \in Reqs :
        /\ Answered(r, "joinCommunity", 403)
        /\ reqs[r].doc # NoDoc /\ isBanned(reqs[r].doc, reqs[r].user)
        /\ reqs[r].doc.visibility = "public"

(***************************************************************************)
(* C4: the resolver returns the community whose id is the input when the   *)
(* input is a valid id of an existing community, also when another         *)
(* community's slug is that string; otherwise the community whose slug is  *)
(* the input; it finds nothing only when neither lookup matches.           *)
(***************************************************************************)
ResolverInputs == Keys \cup Names

ResolvesAsSpecified(k, got) ==
    IF isObjectId(k) /\ k \in Existing
    THEN got = communities[k]
    ELSE IF \E id \in Existing : communities[id].slug = k
    THEN got # NoDoc /\ got.slug = k
    ELSE got = NoDoc

C4_IdBeforeSlug == \A k \in ResolverInputs : ResolvesAsSpecified(k, findCommunity(k))

C4_Witness ==
    /\ communities[OidY] # NoDoc /\ communities[OidY].slug = OidX
    /\ \E r \in Reqs :
          /\ r > 1 /\ reqs[r].op \in {"joinCommunity", "getCommunityInformation"}
          /\ reqs[r].arg.idOrSlug = OidX
          /\ reqs[r].doc # NoDoc /\ reqs[r].doc._id = OidX
          /\ reqs[1].op = "createCommunity" /\ reqs[1].doc # NoDoc /\ reqs[1].doc.slug = OidX

(***************************************************************************)
(* C5: when a join of B to a public community X created by A is answered   *)
(* with success, and no other join to X is under way or done, X has        *)
(* memberCount 2, A as admin and B as member, and X is in the              *)
(* joinedCommunities of both; no join is answered with success while X is  *)
(* missing from the joiner's joinedCommunities.                            *)
(***************************************************************************)
JoinSucceeds(r) == Leaves(r, "joinCommunity", "updateUser") /\ reqs'[r].status = 200

\* the creation of community id has been answered, or the store held it at start-up
Created(id) ==
    \/ id = OidX
    \/ \E q \in Reqs : Answered(q, "createCommunity", 201) /\ reqs[q].doc._id = id

OtherJoin(r, id) ==
    \E q \in Reqs \ {r} :
        /\ reqs[q].op = "joinCommunity" /\ reqs[q].doc # NoDoc /\ reqs[q].doc._id = id
        /\ reqs[q].pc \in {"addMember", "updateUser"} \/ reqs[q].status \in {200, 500}

C5_JoinScenario ==
    [][\A r \in Reqs :
          JoinSucceeds(r) =>
              LET id == reqs[r].doc._id
                  B == reqs[r].user
                  X == communities'[id]
              IN  /\ id \in joinedCommunities'[B]
                  /\ (Created(id) /\ ~OtherJoin(r, id) /\ Len(reqs[r].doc.members) = 2) =>
                        /\ X.memberCount = 2
                        /\ X.members = <<[user |-> X.admin, role |-> "admin"],
                                         [user |-> B, role |-> "member"]>>
                        /\ B # X.admin
                        /\ id \in joinedCommunities'[X.admin]
      ]_vars

C5_Witness ==
    /\ Answered(1, "createCommunity", 201)
    /\ Answered(2, "joinCommunity", 200)
    /\ reqs[2].doc._id = reqs[1].doc._id
    /\ communities[reqs[1].doc._id].memberCount = 2

(***************************************************************************)
(* C6: for a private community, getCommunityInformation by nobody or by a  *)
(* non-member is answered 403, joinCommunity by a non-member is answered   *)
(* 403, and the community's members and memberCount never change.          *)
(***************************************************************************)
PrivateInformationRefused ==
    \A r \in Reqs :
        /\ reqs[r].op = "getCommunityInformation" /\ reqs[r].doc # NoDoc
        /\ reqs[r].doc.visibility = "private"
        /\ reqs[r].user = NoUser \/ ~isMember(reqs[r].doc, reqs[r].user)
        => reqs[r].pc = "done" /\ reqs[r].status = 403

PrivateJoinRefused ==
    \A r \in Reqs :
        /\ reqs[r].op = "joinCommunity" /\ reqs[r].doc # NoDoc
        /\ reqs[r].doc.visibility = "private"
        /\ ~isMember(reqs[r].doc, reqs[r].user)
        => reqs[r].pc = "done" /\ reqs[r].status = 403

C6_PrivateNeverJoined ==
    [][/\ PrivateInformationRefused' /\ PrivateJoinRefused'
       /\ \A id \in Existing :
             communities[id].visibility = "private" =>
                 /\ communities'[id].members = communities[id].members
                 /\ communities'[id].memberCount = communities[id].memberCount
                 /\ \A u \in Users : id \in joinedCommunities'[u] <=> id \in joinedCommunities[u]
      ]_vars

C6_Witness ==
    \E r, q \in Reqs :
        /\ Answered(r, "getCommunityInformation", 403)
        /\ reqs[r].doc # NoDoc /\ reqs[r].doc.visibility = "private" /\ reqs[r].user = "C"
        /\ Answered(q, "joinCommunity", 403)
        /\ reqs[q].doc # NoDoc /\ reqs[q].doc.visibility = "private"
        /\ ~isBanned(reqs[q].doc, reqs[q].user) /\ ~isMember(reqs[q].doc, reqs[q].user)

(***************************************************************************)
(* C3: a togglePostVote whose fetched copy is still the stored one flips   *)
(* the caller's vote and no other user's; two such calls by the same user  *)
(* on the same post, with no write in between, leave the stored upvote set *)
(* as it was before the first.                                             *)
(***************************************************************************)
VoteSaved(r) == reqs[r].op = "togglePostVote" /\ reqs[r].pc \in {"populate", "done"} /\ reqs[r].doc # NoDoc

VoteSaves(r) == Leaves(r, "togglePostVote", "upvote")

C3_ToggleInvolution ==
    [][\A r \in Reqs :
          VoteSaves(r) /\ reqs[r].doc.upvotes = posts[reqs[r].doc._id].upvotes =>
              LET id == reqs[r].doc._id
                  u == reqs[r].user
              IN  /\ u \in posts'[id].upvotes <=> u \notin posts[id].upvotes
                  /\ \A v \in Users \ {u} : v \in posts'[id].upvotes <=> v \in posts[id].upvotes
                  /\ \A q \in Reqs \ {r} :
                        /\ VoteSaved(q) /\ reqs[q].doc._id = id /\ reqs[q].user = u
                        /\ posts[id].upvotes = reqs[q].doc.upvotes
                        => posts'[id].upvotes = reqs[q].arg.before
      ]_vars

C3_Witness ==
    /\ Answered(1, "togglePostVote", 200) /\ Answered(2, "togglePostVote", 200)
    /\ reqs[1].user = reqs[2].user /\ reqs[1].doc._id = reqs[2].doc._id
    /\ reqs[2].arg.before = reqs[1].doc.upvotes
    /\ reqs[1].arg.before = {"B"} /\ reqs[1].user = "A"
    /\ posts[reqs[1].doc._id].upvotes = {"B"}

(***************************************************************************)
(* C7 as claimed: once the fan-out of a successful createPost has ended,   *)
(* the post has exactly one notification of type post for each member of   *)
(* its community other than the author, and no other.                      *)
(***************************************************************************)
PostNotifications(postId) ==
    SelectSeq(notifications, LAMBDA n : n.type = "post" /\ n.data.postId = postId)

NotifiedUsers(postId) ==
    {PostNotifications(postId)[i].user : i \in 1..Len(PostNotifications(postId))}

FanOutEnded(t) == t.pc \in {"sent", "failed", "nocommunity"}

C7_EveryMemberNotified ==
    \A t \in fanout :
        FanOutEnded(t) /\ t.communityId \in Existing =>
            /\ NotifiedUsers(t.post) = MemberIds(communities[t.communityId]) \ {t.authorId}
            /\ Len(PostNotifications(t.post)) = Cardinality(NotifiedUsers(t.post))

\* what the notifications of a post are at each position of its fan-out
FanOutDelivered ==
    /\ \A t \in fanout :
          LET ns == PostNotifications(t.post)
          IN  IF t.pc = "sent"
              THEN /\ Len(ns) = Len(t.memberIds)
                   /\ \A i \in 1..Len(ns) :
                         /\ ns[i].user = t.memberIds[i]
                         /\ ns[i].data = [communityId |-> t.communityId, postId |-> t.post]
                   /\ t.authorId \notin NotifiedUsers(t.post)
              ELSE ns = <<>>
    /\ \A t \in fanout :
          t.pc \in {"insert", "sent", "failed"} =>
              /\ t.authorId \notin {t.memberIds[i] : i \in 1..Len(t.memberIds)}
              /\ {t.memberIds[i] : i \in 1..Len(t.memberIds)} \subseteq Users
    /\ \A i \in 1..Len(notifications) :
          notifications[i].type = "post" =>
              \E t \in fanout : t.pc = "sent" /\ t.post = notifications[i].data.postId

(***************************************************************************)
(* C7 as amended: when the bulk insert of the fan-out succeeds, the post   *)
(* has exactly one notification, carrying the community id and the post    *)
(* id, for each entry that members held when the fan-out read the          *)
(* community and whose user is not the author; before that, and when the   *)
(* community is not found or the insert fails, it has none.                *)
(***************************************************************************)
C7_FanOutWhenInsertSucceeds ==
    /\ FanOutDelivered
    /\ [][/\ FanOutDelivered'
          /\ \A t \in fanout :
                t.pc = "find" /\ t.communityId \in Existing =>
                    \A t2 \in fanout' :
                        t2.post = t.post /\ t2.pc = "insert" =>
                            LET others == SelectSeq(communities[t.communityId].members,
                                                    LAMBDA m : m.user # t.authorId)
                            IN  /\ Len(t2.memberIds) = Len(others)
                                /\ \A i \in 1..Len(others) : t2.memberIds[i] = others[i].user
         ]_vars

C7_Witness ==
    \E t \in fanout :
        /\ t.pc = "sent" /\ Len(t.memberIds) = 2
        /\ Len(PostNotifications(t.post)) = 2
        /\ \E r \in Reqs : Answered(r, "createPost", 201) /\ reqs[r].doc._id = t.post

(***************************************************************************)
(* C8: once createPost has persisted the post, a failure of the broadcast  *)
(* or of the notification bulk insert leaves the answer 201; once          *)
(* togglePostVote has saved the vote, a failure of the broadcast leaves    *)
(* the answer 200.                                                         *)
(***************************************************************************)
C8_SideEffectFailuresSwallowed ==
    \A r \in Reqs :
        /\ reqs[r].op = "createPost" /\ reqs[r].pc = "done" /\ reqs[r].doc # NoDoc
           /\ reqs[r].arg.thrown \in {"none", "emit"}
           => reqs[r].status = 201
        /\ reqs[r].op = "togglePostVote" /\ reqs[r].pc = "done" /\ reqs[r].doc # NoDoc
           /\ reqs[r].arg.thrown \in {"none", "emit"}
           => reqs[r].status = 200

(***************************************************************************)
(* C9: a resetPassword whose OTP is mismatched or expired answers 400,     *)
(* leaves the password as it was and clears the stored reset OTP and its   *)
(* expiry; while the stored reset OTP is cleared every resetPassword that  *)
(* reaches the check fails the same way, and only forgotPassword stores a  *)
(* reset OTP again.                                                        *)
(***************************************************************************)
ResetCodeLive(user, otp) ==
    /\ user.resetPasswordToken # NoCode
    /\ user.resetPasswordToken = otp
    /\ now <= user.resetPasswordExpires

C9_FailedResetClearsOtp ==
    [][/\ \A r \in Reqs :
             Arrives(r, "resetPassword") /\ reqs'[r].doc # NoDoc =>
                 LET user == accounts[reqs'[r].arg.email]
                 IN  IF ResetCodeLive(user, reqs'[r].arg.otp)
                     THEN reqs'[r].pc = "saveNew"
                     ELSE reqs'[r].pc = "saveCleared"
       /\ \A r \in Reqs :
             Leaves(r, "resetPassword", "saveCleared") =>
                 LET e == reqs[r].arg.email
                 IN  /\ reqs'[r].pc = "done" /\ reqs'[r].status = 400
                     /\ accounts'[e].password = accounts[e].password
                     /\ accounts'[e].resetPasswordToken = NoCode
                     /\ accounts'[e].resetPasswordExpires = NoExpiry
       /\ \A e \in Emails :
             /\ accounts[e] # NoDoc /\ accounts[e].resetPasswordToken = NoCode
             /\ accounts'[e].resetPasswordToken # NoCode
             => \E r \in Reqs : Leaves(r, "forgotPassword", "save") /\ reqs[r].arg.email = e
      ]_vars

C9_Witness ==
    /\ Answered(1, "resetPassword", 400) /\ reqs[1].doc # NoDoc
    /\ reqs[1].arg.otp = "111111"
    /\ Answered(2, "resetPassword", 400) /\ reqs[2].doc # NoDoc
    /\ reqs[2].arg.otp = "222222" /\ now = 0
    /\ accounts[EmailA].password = hashOf(PwOld)
    /\ accounts[EmailA].resetPasswordToken = NoCode

(***************************************************************************)
(* C10: verifyEmail goes on to its save exactly when the user exists, is   *)
(* unverified and presents the stored, unexpired verification OTP; the     *)
(* save marks the user verified and clears the OTP and its expiry; the 200 *)
(* answer comes with one welcome notification added for that user; no      *)
(* other step sets isEmailVerified, and once set it stays set.             *)
(***************************************************************************)
VerificationCodeLive(user, otp) ==
    /\ user.emailVerificationOTP # NoCode
    /\ user.emailVerificationOTP = otp
    /\ now <= user.otpExpires

C10_VerifyEmailMarksVerified ==
    [][/\ \A r \in Reqs :
             Arrives(r, "verifyEmail") =>
                 LET e == reqs'[r].arg.email
                     found == e \in Emails /\ accounts[e] # NoDoc
                 IN  reqs'[r].pc = "save" <=>
                         /\ found
                         /\ ~accounts[e].isEmailVerified
                         /\ VerificationCodeLive(accounts[e], reqs'[r].arg.otp)
       /\ \A r \in Reqs :
             Leaves(r, "verifyEmail", "save") =>
                 LET e == reqs[r].arg.email
                 IN  /\ reqs'[r].pc = "notify"
                     /\ accounts'[e].isEmailVerified
                     /\ accounts'[e].emailVerificationOTP = NoCode
                     /\ accounts'[e].otpExpires = NoExpiry
       /\ \A r \in Reqs :
             reqs[r].op = "verifyEmail" /\ reqs[r].pc # "done"
             /\ reqs'[r].pc = "done" /\ reqs'[r].status = 200 =>
                 LET e == reqs[r].arg.email
                 IN  /\ accounts'[e].isEmailVerified
                     /\ notifications' = Append(notifications,
                            [user |-> accounts[e]._id, type |-> "welcome",
                             data |-> [verified |-> TRUE]])
       /\ \A e \in Emails :
             accounts[e] # NoDoc /\ accounts'[e] # NoDoc =>
                 /\ accounts[e].isEmailVerified => accounts'[e].isEmailVerified
                 /\ ~accounts[e].isEmailVerified /\ accounts'[e].isEmailVerified =>
                        \E r \in Reqs : Leaves(r, "verifyEmail", "save") /\ reqs[r].arg.email = e
       /\ \A e \in Emails :
             accounts[e] = NoDoc /\ accounts'[e] # NoDoc => ~accounts'[e].isEmailVerified
      ]_vars

C10_Witness ==
    \E r \in Reqs :
        /\ Answered(r, "verifyEmail", 200)
        /\ accounts[reqs[r].arg.email].isEmailVerified
        /\ accounts[reqs[r].arg.email].emailVerificationOTP = NoCode
        /\ \E i \in 1..Len(notifications) :
              /\ notifications[i].type = "welcome"
              /\ notifications[i].user = accounts[reqs[r].arg.email]._id

(***************************************************************************)
(* C11: a user has at most one live code per purpose; the save of          *)
(* resendOTP makes its new code the only live verification code and leaves *)
(* the reset code alone, the save of forgotPassword makes its new code the *)
(* only live reset code and leaves the verification code alone; and        *)
(* verifyEmail and resetPassword accept only a code that is live when they *)
(* read the user, so a replaced code is refused.                           *)
(***************************************************************************)
LiveVerificationCodes(user) == {c \in Codes : VerificationCodeLive(user, c)}

LiveResetCodes(user) == {c \in Codes : ResetCodeLive(user, c)}

OneLivePerPurpose ==
    \A e \in Emails :
        accounts[e] # NoDoc =>
            /\ Cardinality(LiveVerificationCodes(accounts[e])) <= 1
            /\ Cardinality(LiveResetCodes(accounts[e])) <= 1

C11_OneLiveOtpPerPurpose ==
    /\ OneLivePerPurpose
    /\ [][/\ OneLivePerPurpose'
          /\ \A r \in Reqs :
                Leaves(r, "resendOTP", "save") =>
                    LET e == reqs[r].arg.email
                    IN  /\ accounts'[e].emailVerificationOTP = reqs[r].doc.emailVerificationOTP
                        /\ accounts'[e].otpExpires = reqs[r].doc.otpExpires
                        /\ accounts'[e].emailVerificationOTP \in Codes
                        /\ accounts'[e].resetPasswordToken = accounts[e].resetPasswordToken
                        /\ accounts'[e].resetPasswordExpires = accounts[e].resetPasswordExpires
          /\ \A r \in Reqs :
                Leaves(r, "forgotPassword", "save") =>
                    LET e == reqs[r].arg.email
                    IN  /\ accounts'[e].resetPasswordToken = reqs[r].doc.resetPasswordToken
                        /\ accounts'[e].resetPasswordExpires = reqs[r].doc.resetPasswordExpires
                        /\ accounts'[e].resetPasswordToken \in Codes
                        /\ accounts'[e].emailVerificationOTP = accounts[e].emailVerificationOTP
                        /\ accounts'[e].otpExpires = accounts[e].otpExpires
          /\ \A r \in Reqs :
                Arrives(r, "verifyEmail") /\ reqs'[r].pc = "save" =>
                    reqs'[r].arg.otp = accounts[reqs'[r].arg.email].emailVerificationOTP
          /\ \A r \in Reqs :
                Arrives(r, "resetPassword") /\ reqs'[r].pc = "saveNew" =>
                    reqs'[r].arg.otp = accounts[reqs'[r].arg.email].resetPasswordToken
         ]_vars

C11_Witness ==
    /\ Answered(1, "resendOTP", 200) /\ reqs[1].doc.emailVerificationOTP = "222222"
    /\ Answered(2, "verifyEmail", 400) /\ reqs[2].arg = [email |-> EmailA, otp |-> "111111"]
    /\ now = 0
    /\ accounts[EmailA].emailVerificationOTP = "222222"
    /\ ~accounts[EmailA].isEmailVerified
    /\ accounts[EmailA].resetPasswordToken = "222222"

(***************************************************************************)
(* C12: a verifyEmail that fails answers 404 for an unknown user and 400   *)
(* for a verified user, whatever the code, or for a code that is not the   *)
(* live one, and writes nothing: the stored verification code stays, so    *)
(* the correct code is still accepted afterwards.                          *)
(***************************************************************************)
C12_FailedVerifyEmailWritesNothing ==
    [][\A r \in Reqs :
          Arrives(r, "verifyEmail") =>
              LET e == reqs'[r].arg.email
                  otp == reqs'[r].arg.otp
                  found == e \in Emails /\ accounts[e] # NoDoc
                  expected ==
                      IF e = EmptyString \/ otp = MissingCode THEN 400
                      ELSE IF ~found THEN 404
                      ELSE IF accounts[e].isEmailVerified THEN 400
                      ELSE IF ~VerificationCodeLive(accounts[e], otp) THEN 400
                      ELSE 0
              IN  /\ expected # 0 =>
                        /\ reqs'[r].pc = "done" /\ reqs'[r].status = expected
                        /\ UNCHANGED <<accounts, notifications, communities,
                                       joinedCommunities, posts, files>>
                  /\ expected = 0 => reqs'[r].pc = "save"
      ]_vars

C12_Witness ==
    /\ Answered(1, "verifyEmail", 400) /\ reqs[1].arg = [email |-> EmailA, otp |-> "222222"]
    /\ reqs[1].doc # NoDoc /\ ~reqs[1].doc.isEmailVerified
    /\ Answered(2, "verifyEmail", 200) /\ reqs[2].arg = [email |-> EmailA, otp |-> "111111"]
    /\ accounts[EmailA].isEmailVerified

(***************************************************************************)
(* C13: register with every field present and a bio of 251 characters, or  *)
(* a password of 5 characters, is answered 400 and creates no user; with a *)
(* bio of 250 characters, a password of 6 and an unused e-mail and         *)
(* username it passes validation and goes on to create the user.           *)
(***************************************************************************)
AllFieldsPresent(in) ==
    /\ in.username # EmptyString /\ in.email # EmptyString /\ in.password # EmptyString
    /\ in.bio # EmptyString /\ in.interests # EmptyString
    /\ in.fileSize >= 1 /\ in.fileSize <= MulterLimit

Refused400(r) == reqs'[r].pc = "done" /\ reqs'[r].status = 400 /\ UNCHANGED accounts

C13_BioAndPasswordBoundaries ==
    [][\A r \in Reqs :
          Arrives(r, "register") /\ AllFieldsPresent(reqs'[r].arg.in) =>
              LET in == reqs'[r].arg.in
              IN  /\ Len(in.bio) = BioMax + 1 => Refused400(r)
                  /\ Len(in.password) = PasswordMin - 1 => Refused400(r)
                  /\ /\ Len(in.bio) = BioMax /\ Len(in.password) = PasswordMin
                     /\ emailFormat(in.email) /\ in.fileSize <= MaxImageSize
                     /\ findExisting(in.email, in.username) = NoDoc
                     => reqs'[r].pc = "create"
      ]_vars

(***************************************************************************)
(* C14: register with an e-mail or a username that an existing user has is *)
(* answered 400 and creates no user, no code and no notification; no two   *)
(* users share an e-mail or a username.                                    *)
(***************************************************************************)
PassesValidation(in) ==
    /\ AllFieldsPresent(in)
    /\ Len(in.password) >= PasswordMin /\ emailFormat(in.email)
    /\ Len(in.bio) <= BioMax /\ in.fileSize <= MaxImageSize

UniqueUsers ==
    \A e1, e2 \in KnownEmails :
        /\ accounts[e1].email = e1
        /\ e1 # e2 => accounts[e1].username # accounts[e2].username

C14_ConflictRefused ==
    /\ UniqueUsers
    /\ [][/\ UniqueUsers'
          /\ \A r \in Reqs :
                /\ Arrives(r, "register") /\ PassesValidation(reqs'[r].arg.in)
                /\ findExisting(reqs'[r].arg.in.email, reqs'[r].arg.in.username) # NoDoc
                => Refused400(r) /\ UNCHANGED notifications
         ]_vars

(***************************************************************************)
(* C15: when register has answered and a profile image had been staged,    *)
(* the staged file is still on disk exactly when the answer is 201.        *)
(***************************************************************************)
C15_NoOrphanedUploads ==
    \A r \in Reqs :
        reqs[r].op = "register" /\ reqs[r].pc = "done" /\ reqs[r].arg.file # 0 =>
            (reqs[r].arg.file \in files <=> reqs[r].status = 201)

(***************************************************************************)
(* C16: forgotPassword with a non-empty e-mail answers 200, and the answer *)
(* to a request for a registered e-mail equals the answer to a request for *)
(* an unregistered one.                                                    *)
(***************************************************************************)
ForgotAnswered(r) ==
    reqs[r].op = "forgotPassword" /\ reqs[r].pc = "done" /\ reqs[r].arg.email # EmptyString

\* what the client reads: the status and the body's otp field (absent: MissingCode)
ForgotResponse(r) == [status |-> reqs[r].status, otp |-> reqs[r].arg.otp]

C16_NoAccountEnumeration ==
    \A r, q \in Reqs :
        ForgotAnswered(r) /\ ForgotAnswered(q) =>
            /\ reqs[r].status = 200
            /\ reqs[r].doc # NoDoc /\ reqs[q].doc = NoDoc => ForgotResponse(r) = ForgotResponse(q)

(***************************************************************************)
(* C17: a createPost whose author is not a member of the target community, *)
(* or whose community does not exist, is rejected and stores no post.      *)
(***************************************************************************)
AuthorIsMember(communityId, author) ==
    /\ communityId \in CommunityIdSet /\ communities[communityId] # NoDoc
    /\ author \in MemberIds(communities[communityId])

C17_PostsByMembersOnly ==
    [][\A r \in Reqs :
          Arrives(r, "createPost") /\ ~AuthorIsMember(reqs'[r].arg.communityId, reqs'[r].user) =>
              /\ reqs'[r].pc = "done" /\ reqs'[r].status >= 400
              /\ UNCHANGED posts
      ]_vars

(***************************************************************************)
(* C18: once two joinCommunity requests of distinct users on one community *)
(* have both answered 200, both users are in members and memberCount is    *)
(* the length of members; once two togglePostVote requests of distinct     *)
(* users on one post have both answered 200, each user's vote is the       *)
(* opposite of what the request read.                                      *)
(***************************************************************************)
BothAnswered(r, q, op) ==
    /\ r # q /\ Answered(r, op, 200) /\ Answered(q, op, 200)
    /\ reqs[r].user # reqs[q].user /\ reqs[r].doc._id = reqs[q].doc._id

C18_NoLostUpdates ==
    \A r, q \in Reqs :
        /\ BothAnswered(r, q, "joinCommunity") =>
              LET community == communities[reqs[r].doc._id]
              IN  /\ {reqs[r].user, reqs[q].user} \subseteq MemberIds(community)
                  /\ community.memberCount = Len(community.members)
        /\ BothAnswered(r, q, "togglePostVote") =>
              LET upvotes == posts[reqs[r].doc._id].upvotes
              IN  /\ reqs[r].user \in upvotes <=> reqs[r].user \notin reqs[r].arg.before
                  /\ reqs[q].user \in upvotes <=> reqs[q].user \notin reqs[q].arg.before

(***************************************************************************)
(* C19: joinCommunity by a user who is a member and not banned is answered *)
(* 400, also in a private community, and changes nothing; and in every     *)
(* state each user appears at most once in the members of a community.     *)
(***************************************************************************)
NoDuplicateMembers ==
    \A id \in Existing :
        Len(communities[id].members) = Cardinality(MemberIds(communities[id]))

C19_MemberListedOnce ==
    /\ NoDuplicateMembers
    /\ [][/\ NoDuplicateMembers'
          /\ \A r \in Reqs :
                /\ Arrives(r, "joinCommunity") /\ reqs'[r].doc # NoDoc
                /\ reqs'[r].user \in MemberIds(reqs'[r].doc)
                /\ reqs'[r].user \notin reqs'[r].doc.bannedUsers
                => /\ reqs'[r].pc = "done" /\ reqs'[r].status = 400
                   /\ UNCHANGED <<communities, joinedCommunities>>
         ]_vars

(***************************************************************************)
(* C20: no user has more than one welcome notification.                    *)
(***************************************************************************)
WelcomeNotifications(userId) ==
    SelectSeq(notifications, LAMBDA n : n.type = "welcome" /\ n.user = userId)

C20_SingleWelcome ==
    \A e \in KnownEmails : Len(WelcomeNotifications(accounts[e]._id)) <= 1

(***************************************************************************)
(* C21: one reset code authorizes at most one password change: as long as  *)
(* no forgotPassword has been served for the user, no two resetPassword    *)
(* requests carrying the same code are both answered 200.                  *)
(***************************************************************************)
NoCodeReissued(email) ==
    \A r \in Reqs : ~(reqs[r].op = "forgotPassword" /\ reqs[r].arg.email = email)

C21_ResetCodeSingleUse ==
    \A r, q \in Reqs :
        /\ r # q
        /\ Answered(r, "resetPassword", 200) /\ Answered(q, "resetPassword", 200)
        /\ reqs[r].arg.email = reqs[q].arg.email /\ reqs[r].arg.otp = reqs[q].arg.otp
        => ~NoCodeReissued(reqs[r].arg.email)

====
